---- MODULE Spec2Model ----
(***************************************************************************)
(* A model of the MCP client (mcpclient.py): the transport helpers         *)
(* http_get / http_post with their retry loops, tool discovery with the    *)
(* schema-version cache, argument validation, and the agent loop.          *)
(*                                                                         *)
(* Two entry points are modelled.  Spec is one run of the program: main    *)
(* calls agent_loop once.  DiscoverySpec is a caller that invokes          *)
(* discover_tools any number of times in one process, so that the module   *)
(* level tool_cache is carried from one call to the next.                  *)
(***************************************************************************)
EXTENDS Integers, Sequences, FiniteSets, TLC

\* ------------------------------------------------------------------------
\* Config
\* ------------------------------------------------------------------------
MAX_RETRIES == 2

\* Longest server_urls list given to discover_tools / agent_loop.
MaxUrls == 2

\* Python's None (a missing key read with dict.get, an absent value).
None == "<None>"

Servers == {"s1", "s2"}

Versions == {"v1", "v2"}

\* ------------------------------------------------------------------------
\* Tool descriptors as a server lists them, and their args_schema.
\* A schema is a JSON Schema of the shape
\*   {"type": "object", "properties": {k: {"type": "number"}}, "required": [...]}
\* wellformed = FALSE is a document that is not a valid schema, such as
\*   {"type": "objekt"}, on which jsonschema.validate raises SchemaError.
\* ------------------------------------------------------------------------
AddSchema ==
    [wellformed |-> TRUE, type |-> "object", required |-> {"a"}, numeric |-> {"a"}]

BadSchema ==
    [wellformed |-> FALSE, type |-> "objekt", required |-> {}, numeric |-> {}]

\* The schema validate_args_against_tool uses for a tool without args_schema.
DefaultSchema ==
    [wellformed |-> TRUE, type |-> "object", required |-> {}, numeric |-> {}]

\* Placeholder in the args_schema field of a tool that has no such key.
NoSchema ==
    [wellformed |-> TRUE, type |-> "absent", required |-> {}, numeric |-> {}]

AddTool == [name |-> "add", has_schema |-> TRUE, args_schema |-> AddSchema]

EchoTool == [name |-> "echo", has_schema |-> FALSE, args_schema |-> NoSchema]

BadTool == [name |-> "bad", has_schema |-> TRUE, args_schema |-> BadSchema]

\* The "tools" value of a /list_tools body (a missing key reads as []).
ToolLists == {<< >>, <<AddTool>>, <<EchoTool, BadTool>>}

\* server_urls arguments: every list of at most MaxUrls servers, repeats included.
UrlLists == UNION {[1..n -> Servers] : n \in 0..MaxUrls}

\* ------------------------------------------------------------------------
\* State
\* ------------------------------------------------------------------------
VARIABLES
    pc,            \* where the program is
    server_urls,   \* discover_tools: its argument
    idx,           \* discover_tools: servers taken from server_urls so far
    phase,         \* discover_tools: which request is in progress, "init" or "list"
    attempt,       \* http_get / http_post: the loop variable
    sleeps,        \* http_get / http_post: time.sleep(RETRY_DELAY) calls of this request
    tried,         \* http_get / http_post: requests sent by this call
    r,             \* http_post: its local r (the last response object bound)
    ret,           \* what the last http_get / http_post returned or raised
    tool_cache,    \* the module's tool_cache
    discovered,    \* discover_tools: its local discovered
    tools,         \* agent_loop: its local tools
    system_prompt, \* agent_loop: its local system_prompt
    req,           \* the /call_tool request in progress
    turn,          \* what the current turn of agent_loop has done and printed
    read_input,    \* whether agent_loop has called input()
    exit,          \* how agent_loop ended
    visit,         \* history: the current iteration of discover_tools
    seen,          \* history: per server, version and tools of its last good visit
    stored,        \* history: per server, the last response that differed in version
    expected,      \* history: the tools of the servers that answered, in order
    stats          \* history: visits, failures and warnings of this pass

vars ==
    <<pc, server_urls, idx, phase, attempt, sleeps, tried, r, ret, tool_cache,
      discovered, tools, system_prompt, req, turn, read_input, exit, visit, seen,
      stored, expected, stats>>

\* ------------------------------------------------------------------------
\* Values
\* ------------------------------------------------------------------------
\* tool_cache.get(url) of a server that has no entry.
NoEntry == [has |-> FALSE, version |-> None, tools |-> << >>]

Entry(version, tls) == [has |-> TRUE, version |-> version, tools |-> tls]

NoBody == [isdict |-> FALSE, version |-> None, tools |-> << >>, at |-> 0]

NoRet == [raised |-> FALSE, err |-> None, errAt |-> 0, body |-> NoBody]

Unbound == [bound |-> FALSE, at |-> 0, parseable |-> FALSE]

NoReq == [server_url |-> None, tool |-> None]

NoVisit ==
    [url |-> None, init |-> "none", list |-> "none", warnings |-> 0, attempts |-> 0,
     before |-> 0, version |-> None, fresh |-> << >>, prev |-> NoEntry, cached |-> NoEntry]

NoStats == [visits |-> 0, failed |-> 0, answered |-> 0, warnings |-> 0]

\* t_copy = dict(t); t_copy["_server_url"] = url   (the field is server_url here)
Tag(t, url) ==
    [name |-> t.name, has_schema |-> t.has_schema, args_schema |-> t.args_schema,
     server_url |-> url]

TagAll(tls, url) == [i \in 1..Len(tls) |-> Tag(tls[i], url)]

Untag(t) == [name |-> t.name, has_schema |-> t.has_schema, args_schema |-> t.args_schema]

UntagAll(tls) == [i \in 1..Len(tls) |-> Untag(tls[i])]

\* ------------------------------------------------------------------------
\* http_get
\* ------------------------------------------------------------------------
\* What one requests.get attempt can do: a 2xx answer whose body parses, or
\* one of the failures the except clause catches.
GetFailures == {"Timeout", "HTTPError", "JSONDecodeError"}

\* Bodies of /list_tools: a JSON object with the two keys, or JSON that is
\* not an object.  In an object, "tools" has the shape the protocol gives it,
\* a list of objects; a tool may lack its args_schema, and an args_schema
\* need not be a valid schema.  /initialize's body is ignored by the caller.
ListBodies ==
    {[isdict |-> TRUE, version |-> v, tools |-> tl, at |-> 0] : v \in Versions, tl \in ToolLists}
    \cup {NoBody}

InitBodies == {[isdict |-> TRUE, version |-> None, tools |-> << >>, at |-> 0]}

\* Mutation: the except clause sleeps and continues on every failure.
ShouldRetry_Always(a) == TRUE

\* "if attempt < MAX_RETRIES" in the except clause of both helpers.
ShouldRetry(a) == a < MAX_RETRIES

StartGet(ph) ==
    /\ pc' = "get"
    /\ phase' = ph
    /\ attempt' = 0
    /\ sleeps' = 0
    /\ tried' = 0
    /\ ret' = NoRet

\* One pass through the body of http_get's for loop.
GetAttempt ==
    /\ pc = "get"
    /\ tried' = tried + 1
    /\ \/ \E b \in (IF phase = "init" THEN InitBodies ELSE ListBodies) :
             /\ pc' = "got"
             /\ ret' = [raised |-> FALSE, err |-> None, errAt |-> 0,
                        body |-> [b EXCEPT !.at = attempt]]
             /\ UNCHANGED <<attempt, sleeps>>
       \/ \E e \in GetFailures :
             IF ShouldRetry(attempt)
             THEN /\ sleeps' = sleeps + 1
                  /\ IF attempt + 1 <= MAX_RETRIES
                     THEN /\ attempt' = attempt + 1
                          /\ UNCHANGED <<pc, ret>>
                     ELSE \* the for loop is exhausted: the function returns None
                          /\ pc' = "got"
                          /\ ret' = [NoRet EXCEPT !.err = "ReturnedNone"]
                          /\ UNCHANGED attempt
             ELSE /\ pc' = "got"
                  /\ ret' = [raised |-> TRUE, err |-> e, errAt |-> attempt, body |-> NoBody]
                  /\ UNCHANGED <<attempt, sleeps>>
    /\ UNCHANGED <<server_urls, idx, phase, r, tool_cache, discovered, tools,
                   system_prompt, req, turn, read_input, exit, visit, seen, stored,
                   expected, stats>>

\* ------------------------------------------------------------------------
\* discover_tools
\* ------------------------------------------------------------------------
\* The locals of a finished http call are dead once its caller has read them.
ClearRequest ==
    /\ attempt' = 0
    /\ sleeps' = 0
    /\ tried' = 0
    /\ ret' = NoRet

\* "if cached and cached.get("version") == version"
UseCached(cached, version) == cached.has /\ cached.version = version

\* Mutation: a changed version appends the new tools to the cached ones.
StoreEntry_Merge(cached, version, fresh) == Entry(version, cached.tools \o fresh)

\* tool_cache[url] = {"version": version, "tools": tools}
StoreEntry(cached, version, fresh) == Entry(version, fresh)

\* Mutation: the branch on a matching version does not assign tools.
ToolsAfter_Fresh(cached, version, fresh) == fresh

\* The value of the local tools after the if/else on the cache.
ToolsAfter(cached, version, fresh) ==
    IF UseCached(cached, version) THEN cached.tools ELSE fresh

\* Mutation: the entry is stored whether or not the version matches.
CacheAfter_AlwaysStore(cached, version, fresh) == StoreEntry(cached, version, fresh)

\* The value of tool_cache[url] after the if/else on the cache.
CacheAfter(cached, version, fresh) ==
    IF UseCached(cached, version) THEN cached ELSE StoreEntry(cached, version, fresh)

\* discovered = []; the for loop is about to take its first server.
BeginDiscover(urls) ==
    /\ server_urls' = urls
    /\ discovered' = << >>
    /\ idx' = 0
    /\ pc' = "iter"
    /\ visit' = NoVisit
    /\ expected' = << >>
    /\ stats' = NoStats
    /\ UNCHANGED <<phase, attempt, sleeps, tried, r, ret, tool_cache, tools,
                   system_prompt, req, turn, read_input, exit, seen, stored>>

\* A caller other than agent_loop calls discover_tools, for the first time or again.
CallDiscover ==
    /\ pc \in {"start", "returned"}
    /\ \E urls \in UrlLists : BeginDiscover(urls)

\* "for url in server_urls": the next server, and its GET /initialize begins.
NextServer ==
    /\ pc = "iter"
    /\ idx < Len(server_urls)
    /\ idx' = idx + 1
    /\ visit' = [NoVisit EXCEPT !.url = server_urls[idx + 1], !.before = Len(discovered)]
    /\ stats' = [stats EXCEPT !.visits = @ + 1]
    /\ StartGet("init")
    /\ UNCHANGED <<server_urls, r, tool_cache, discovered, tools, system_prompt, req,
                   turn, read_input, exit, seen, stored, expected>>

\* Mutation: the handler of a failed /initialize lacks its "continue".
InitFailed_NoContinue ==
    /\ pc = "got"
    /\ phase = "init"
    /\ ret.raised
    /\ visit' = [visit EXCEPT !.init = "failed", !.warnings = @ + 1, !.attempts = tried]
    /\ stats' = [stats EXCEPT !.failed = @ + 1, !.warnings = @ + 1]
    /\ StartGet("list")
    /\ UNCHANGED <<server_urls, idx, r, tool_cache, discovered, tools, system_prompt,
                   req, turn, read_input, exit, seen, stored, expected>>

\* Mutation: the failure of /initialize is warned about once per attempt.
InitFailed_WarnPerAttempt ==
    /\ pc = "got"
    /\ phase = "init"
    /\ ret.raised
    /\ visit' = [visit EXCEPT !.init = "failed", !.warnings = @ + tried, !.attempts = tried]
    /\ stats' = [stats EXCEPT !.failed = @ + 1, !.warnings = @ + tried]
    /\ pc' = "iter"
    /\ ClearRequest
    /\ UNCHANGED <<server_urls, idx, phase, r, tool_cache, discovered, tools,
                   system_prompt, req, turn, read_input, exit, seen, stored, expected>>

\* http_get(url/initialize) raised: one warning, then "continue".
InitFailed ==
    /\ pc = "got"
    /\ phase = "init"
    /\ ret.raised
    /\ visit' = [visit EXCEPT !.init = "failed", !.warnings = @ + 1, !.attempts = tried]
    /\ stats' = [stats EXCEPT !.failed = @ + 1, !.warnings = @ + 1]
    /\ pc' = "iter"
    /\ ClearRequest
    /\ UNCHANGED <<server_urls, idx, phase, r, tool_cache, discovered, tools,
                   system_prompt, req, turn, read_input, exit, seen, stored, expected>>

\* http_get(url/initialize) returned: its value is dropped, GET /list_tools begins.
InitOk ==
    /\ pc = "got"
    /\ phase = "init"
    /\ ~ret.raised
    /\ visit' = [visit EXCEPT !.init = "ok"]
    /\ StartGet("list")
    /\ UNCHANGED <<server_urls, idx, r, tool_cache, discovered, tools, system_prompt,
                   req, turn, read_input, exit, seen, stored, expected, stats>>

\* http_get(url/list_tools) raised, or tools_resp.get raised on a body that is
\* no JSON object: one warning, then "continue".
ListFailed ==
    /\ pc = "got"
    /\ phase = "list"
    /\ ret.raised \/ ~ret.body.isdict
    /\ visit' = [visit EXCEPT !.list = "failed", !.warnings = @ + 1, !.attempts = tried]
    /\ stats' = [stats EXCEPT !.failed = @ + 1, !.warnings = @ + 1]
    /\ pc' = "iter"
    /\ ClearRequest
    /\ UNCHANGED <<server_urls, idx, phase, r, tool_cache, discovered, tools,
                   system_prompt, req, turn, read_input, exit, seen, stored, expected>>

\* Both requests answered: the cache is consulted or replaced, and the tools
\* of this server are tagged and appended.
ListOk ==
    /\ pc = "got"
    /\ phase = "list"
    /\ ~ret.raised
    /\ ret.body.isdict
    /\ LET url == server_urls[idx]
           cached == tool_cache[url]
           version == ret.body.version
           fresh == ret.body.tools
       IN  /\ tool_cache' = [tool_cache EXCEPT ![url] = CacheAfter(cached, version, fresh)]
           /\ discovered' = discovered \o TagAll(ToolsAfter(cached, version, fresh), url)
           /\ visit' = [visit EXCEPT !.list = "ok", !.version = version, !.fresh = fresh,
                                     !.prev = seen[url], !.cached = cached]
           /\ seen' = [seen EXCEPT ![url] =
                         Entry(version,
                               UntagAll(SubSeq(discovered', Len(discovered) + 1,
                                               Len(discovered'))))]
           /\ stored' = IF cached.has /\ cached.version = version
                        THEN stored
                        ELSE [stored EXCEPT ![url] = Entry(version, fresh)]
           /\ expected' = IF visit.init = "ok"
                          THEN expected \o
                                 TagAll(IF seen[url].has /\ seen[url].version = version
                                        THEN seen[url].tools
                                        ELSE fresh, url)
                          ELSE expected
    /\ stats' = [stats EXCEPT !.answered = @ + 1]
    /\ pc' = "iter"
    /\ ClearRequest
    /\ UNCHANGED <<server_urls, idx, phase, r, tools, system_prompt, req, turn,
                   read_input, exit>>

\* "return discovered", to a caller other than agent_loop.
ReturnToCaller ==
    /\ pc = "iter"
    /\ idx = Len(server_urls)
    /\ pc' = "returned"
    /\ visit' = NoVisit
    /\ UNCHANGED <<server_urls, idx, phase, attempt, sleeps, tried, r, ret, tool_cache,
                   discovered, tools, system_prompt, req, turn, read_input, exit, seen,
                   stored, expected, stats>>

\* ------------------------------------------------------------------------
\* JSON values the model replies with, and json.loads
\* ------------------------------------------------------------------------
\* args of a decision: absent, {"a": 1}, {"a": "x"}, or a value that is no object.
ArgsAbsent == [present |-> FALSE, isobj |-> FALSE, fields |-> {}]

ArgsEmpty == [present |-> TRUE, isobj |-> TRUE, fields |-> {}]

ArgsValues ==
    {ArgsAbsent,
     [present |-> TRUE, isobj |-> TRUE, fields |-> {<<"a", "number">>}],
     [present |-> TRUE, isobj |-> TRUE, fields |-> {<<"a", "string">>}],
     [present |-> TRUE, isobj |-> FALSE, fields |-> {}]}

\* What call_llm can return.  syntax says what the text is:
\*   "prose"     text that is no JSON and that json.loads rejects
\*   "nan"       the text NaN (or Infinity): no JSON, but json.loads accepts it
\*   "scalar"    a JSON number, string, true, false or null
\*   "array"     a JSON array
\*   "object"    a JSON object, with the keys that are not None
\*   "nocontent" no text at all: the completion's content is null
Plain(syntax) ==
    [syntax |-> syntax, action |-> None, tool |-> None, server_url |-> None,
     args |-> ArgsAbsent]

Replies ==
    {Plain(x) : x \in {"prose", "nan", "scalar", "array", "nocontent"}}
    \cup {[Plain("object") EXCEPT !.action = a] : a \in {None, "none", "search"}}
    \cup {[syntax |-> "object", action |-> "use_tool", tool |-> t, server_url |-> u,
           args |-> a] :
             t \in {None, "", "add", "echo", "bad"}, u \in Servers \cup {None},
             a \in ArgsValues}

NoReply == Plain("none")

\* json.loads(llm_reply): what it raises, and whether its value is a dict.
json_loads(reply) ==
    CASE reply.syntax = "prose" -> [raised |-> "JSONDecodeError", isdict |-> FALSE]
      [] reply.syntax = "nocontent" -> [raised |-> "TypeError", isdict |-> FALSE]
      [] reply.syntax = "object" -> [raised |-> None, isdict |-> TRUE]
      [] OTHER -> [raised |-> None, isdict |-> FALSE]

\* Mutation: the completeness check tests "is None" instead of truth.
Falsy_NoneOnly(x) == x = None

\* Python truth of a value read with decision.get: None and "" are false.
Falsy(x) == x = None \/ x = ""

\* ------------------------------------------------------------------------
\* validate_args_against_tool
\* ------------------------------------------------------------------------
NoMessage == [isNone |-> TRUE, text |-> << >>]

Message(what, key) == [isNone |-> FALSE, text |-> <<what, key>>]

\* jsonschema.validate(instance, schema): SchemaError for a document that is
\* no schema, else the first violation as a ValidationError, else nothing.
validate(instance, schema) ==
    IF ~schema.wellformed
    THEN [exc |-> "SchemaError", err |-> NoMessage]
    ELSE IF schema.type = "object" /\ ~instance.isobj
    THEN [exc |-> "ValidationError", err |-> Message("is not of type", "object")]
    ELSE IF instance.isobj /\ \E k \in schema.required : \A f \in instance.fields : f[1] # k
    THEN [exc |-> "ValidationError",
          err |-> Message("is a required property",
                          CHOOSE k \in schema.required :
                              \A f \in instance.fields : f[1] # k)]
    ELSE IF instance.isobj /\ \E f \in instance.fields : f[1] \in schema.numeric /\ f[2] # "number"
    THEN [exc |-> "ValidationError", err |-> Message("is not of type", "number")]
    ELSE [exc |-> None, err |-> NoMessage]

\* Returns None, or ve.message; any exception but ValidationError passes through.
validate_args_against_tool(tool, args) ==
    LET schema == IF tool.has_schema THEN tool.args_schema ELSE DefaultSchema
        v == validate(args, schema)
    IN  IF v.exc = "ValidationError"
        THEN [exc |-> None, err |-> v.err]
        ELSE v

\* Mutation: the result of the validation is not looked at.
Rejects_Never(err) == FALSE

\* "if err:" in agent_loop
Rejects(err) == ~err.isNone /\ err.text # << >>

\* ------------------------------------------------------------------------
\* agent_loop
\* ------------------------------------------------------------------------
\* Mutation: the test for an empty tool list never succeeds.
NoTools_Never(tls) == FALSE

\* "if not tools:"
NoTools(tls) == Len(tls) = 0

\* build_system_prompt_from_tools: one entry per tool, in order, with its
\* name, its server and its args schema ({} when the tool has none).
build_system_prompt_from_tools(tls) ==
    [i \in 1..Len(tls) |->
        [name |-> tls[i].name, server |-> tls[i].server_url,
         args_schema |-> IF tls[i].has_schema THEN tls[i].args_schema ELSE NoSchema]]

\* What a turn has done so far. post_failures counts the attempts of the
\* turn's POST /call_tool that got no 2xx response with a parseable body, and
\* tool_outcome says whether call_tool_on_server returned or raised, followup
\* whether the second call_llm returned or raised.
NoTurn ==
    [stage |-> "none", reply |-> NoReply, llm_calls |-> 0, tool_calls |-> 0,
     looked_up |-> FALSE, validated |-> "no", message |-> NoMessage, error |-> None,
     prompts |-> {}, printed |-> << >>, post_failures |-> 0, tool_outcome |-> "none",
     followup |-> "none"]

Line(tag, form, reply) == [tag |-> tag, form |-> form, of |-> reply]

\* agent_loop is called (by main): discovery begins.
StartSession ==
    /\ pc = "start"
    /\ \E urls \in UrlLists : BeginDiscover(urls)

\* "return discovered" to agent_loop, which ends at once without tools and
\* otherwise builds the system prompt and enters its while loop.
ReturnToAgentLoop ==
    /\ pc = "iter"
    /\ idx = Len(server_urls)
    /\ tools' = discovered
    /\ visit' = NoVisit
    /\ IF NoTools(discovered)
       THEN /\ pc' = "ended"
            /\ exit' = "no_tools"
            /\ UNCHANGED system_prompt
       ELSE /\ pc' = "await"
            /\ system_prompt' = build_system_prompt_from_tools(discovered)
            /\ UNCHANGED exit
    /\ UNCHANGED <<server_urls, idx, phase, attempt, sleeps, tried, r, ret, tool_cache,
                   discovered, req, turn, read_input, seen, stored, expected, stats>>

\* The lines the user can type; input().strip().lower() of each.
InputLines == {"exit", " Quit ", "what is 2 plus 3"}

StripLower(line) == IF line = " Quit " THEN "quit" ELSE line

\* Mutation: the lookup compares the tool name only.
Matches_ByName(tls, name, url) == {i \in 1..Len(tls) : tls[i].name = name}

\* The first tool of tls with this name and server (next(..., None)).
Matches(tls, name, url) ==
    {i \in 1..Len(tls) : tls[i].name = name /\ tls[i].server_url = url}

First(S) == CHOOSE i \in S : \A j \in S : i <= j

\* What the body of the while loop does with the model's reply, from
\* json.loads up to the call of call_tool_on_server.
Decide(reply, tls) ==
    LET parsed == json_loads(reply)
        args == IF reply.args.present THEN reply.args ELSE ArgsEmpty
        found == Matches(tls, reply.tool, reply.server_url)
        base == [NoTurn EXCEPT !.reply = reply]
    IN  IF parsed.raised = "JSONDecodeError"
        THEN [base EXCEPT !.stage = "prose",
                          !.printed = <<Line("Assistant:", "raw", reply)>>]
        ELSE IF parsed.raised # None
        THEN [base EXCEPT !.stage = "crashed", !.error = parsed.raised]
        ELSE IF ~parsed.isdict
        THEN [base EXCEPT !.stage = "crashed", !.error = "AttributeError"]
        ELSE IF reply.action = "none"
        THEN [base EXCEPT !.stage = "no_tool",
                          !.printed = <<Line("Assistant: Sorry, no suitable tool.", "none", NoReply)>>]
        ELSE IF reply.action # "use_tool"
        THEN [base EXCEPT !.stage = "unknown_action",
                          !.printed = <<Line("Assistant returned unknown action:", "repr", reply)>>]
        ELSE IF Falsy(reply.tool) \/ Falsy(reply.server_url)
        THEN [base EXCEPT !.stage = "incomplete",
                          !.printed = <<Line("[ERROR] Incomplete tool call info:", "repr", reply)>>]
        ELSE IF found = {}
        THEN [base EXCEPT !.stage = "not_found", !.looked_up = TRUE,
                          !.printed = <<Line("[ERROR] Tool not found on server.", "none", NoReply)>>]
        ELSE LET v == validate_args_against_tool(tls[First(found)], args)
             IN  IF v.exc # None
                 THEN [base EXCEPT !.stage = "crashed", !.looked_up = TRUE,
                                   !.validated = "raised", !.error = v.exc]
                 ELSE IF Rejects(v.err)
                 THEN [base EXCEPT !.stage = "invalid_args", !.looked_up = TRUE,
                                   !.validated = "rejected", !.message = v.err,
                                   !.printed = <<Line("[ERROR] Argument validation failed:", "message", NoReply)>>]
                 ELSE [base EXCEPT !.stage = "calling", !.looked_up = TRUE,
                                   !.validated = IF v.err.isNone THEN "passed" ELSE "ignored",
                                   !.message = v.err, !.tool_calls = 1]

\* The head of the while loop: input() returns a line, and the loop is left
\* on quit or exit, or else call_llm is called with the line.
ReadInput ==
    /\ pc = "await"
    /\ read_input' = TRUE
    /\ \E line \in InputLines :
          IF StripLower(line) \in {"quit", "exit"}
          THEN /\ pc' = "ended"
               /\ exit' = "quit"
               /\ turn' = [NoTurn EXCEPT !.stage = "quit"]
          ELSE /\ pc' = "llm"
               /\ turn' = [NoTurn EXCEPT !.stage = "deciding", !.llm_calls = 1,
                                         !.prompts = {system_prompt}]
               /\ UNCHANGED exit
    /\ UNCHANGED <<server_urls, idx, phase, attempt, sleeps, tried, r, ret, tool_cache,
                   discovered, tools, system_prompt, req, visit, seen, stored, expected,
                   stats>>

\* call_llm raises or returns, and the rest of the loop body runs up to its
\* next blocking call: back at input(), out of the loop on an exception
\* nothing catches, or in http_post for the tool call.
ModelReplies ==
    /\ pc = "llm"
    /\ \/ /\ turn' = [turn EXCEPT !.stage = "llm_error",
                                  !.printed = <<Line("[ERROR] LLM call failed:", "none", NoReply)>>]
          /\ pc' = "await"
          /\ UNCHANGED <<exit, req, r, attempt, sleeps, tried, ret>>
       \/ \E reply \in Replies :
             LET d == [Decide(reply, tools) EXCEPT !.llm_calls = turn.llm_calls,
                                                  !.prompts = turn.prompts]
             IN  /\ turn' = d
                 /\ IF d.stage = "crashed"
                    THEN /\ pc' = "ended"
                         /\ exit' = "exception"
                         /\ UNCHANGED <<req, r, attempt, sleeps, tried, ret>>
                    ELSE IF d.stage = "calling"
                    THEN /\ pc' = "post"
                         /\ req' = [server_url |-> reply.server_url, tool |-> reply.tool]
                         /\ r' = Unbound
                         /\ ClearRequest
                         /\ UNCHANGED exit
                    ELSE /\ pc' = "await"
                         /\ UNCHANGED <<exit, req, r, attempt, sleeps, tried, ret>>
    /\ UNCHANGED <<server_urls, idx, phase, tool_cache, discovered, tools, system_prompt,
                   read_input, visit, seen, stored, expected, stats>>

\* ------------------------------------------------------------------------
\* http_post
\* ------------------------------------------------------------------------
\* What one requests.post attempt can do:
\*   "ok"           2xx, the body parses: return r.json()
\*   "bad_json"     2xx, the body does not parse: r.json() raises
\*   "error_body"   non-2xx with a body that parses: raise_for_status raises
\*   "error_nobody" non-2xx with a body that does not parse
\*   "no_response"  requests.post itself raises: r is not assigned
PostOutcomes == {"ok", "bad_json", "error_body", "error_nobody", "no_response"}

\* The local r after an attempt with this outcome.
Assigned(old, outcome, a) ==
    IF outcome = "no_response"
    THEN old
    ELSE [bound |-> TRUE, at |-> a, parseable |-> outcome \in {"ok", "error_body"}]

\* "try: return r.json() / except Exception: raise" after the last attempt.
Salvage(rv, a) ==
    IF rv.bound /\ rv.parseable
    THEN [raised |-> FALSE, err |-> None, errAt |-> 0, body |-> [NoBody EXCEPT !.at = rv.at]]
    ELSE [raised |-> TRUE, err |-> IF rv.bound THEN "JSONDecodeError" ELSE "UnboundLocalError",
          errAt |-> a, body |-> NoBody]

\* One pass through the body of http_post's for loop.
PostAttempt ==
    /\ pc = "post"
    /\ tried' = tried + 1
    /\ \E o \in PostOutcomes :
          /\ r' = Assigned(r, o, attempt)
          /\ turn' = [turn EXCEPT !.post_failures = IF o = "ok" THEN @ ELSE @ + 1]
          /\ IF o = "ok"
             THEN /\ pc' = "posted"
                  /\ ret' = [raised |-> FALSE, err |-> None, errAt |-> 0,
                             body |-> [NoBody EXCEPT !.at = attempt]]
                  /\ UNCHANGED <<attempt, sleeps>>
             ELSE IF ShouldRetry(attempt)
             THEN /\ sleeps' = sleeps + 1
                  /\ IF attempt + 1 <= MAX_RETRIES
                     THEN /\ attempt' = attempt + 1
                          /\ UNCHANGED <<pc, ret>>
                     ELSE /\ pc' = "posted"
                          /\ ret' = [NoRet EXCEPT !.err = "ReturnedNone"]
                          /\ UNCHANGED attempt
             ELSE /\ pc' = "posted"
                  /\ ret' = Salvage(r', attempt)
                  /\ UNCHANGED <<attempt, sleeps>>
    /\ UNCHANGED <<server_urls, idx, phase, tool_cache, discovered, tools, system_prompt,
                   req, read_input, exit, visit, seen, stored, expected, stats>>

\* Mutation: the follow-up call is sent without the system prompt.
FollowupPrompt_Empty(sp) == << >>

\* The system prompt of the follow-up call: call_llm(system_prompt, feedback_prompt).
FollowupPrompt(sp) == sp

\* Mutation: a tool call that raised is made once more in the same turn.
ToolCallFailed_CallsAgain ==
    /\ pc = "posted"
    /\ ret.raised
    /\ IF turn.tool_calls < 2
       THEN /\ turn' = [turn EXCEPT !.tool_calls = @ + 1]
            /\ pc' = "post"
            /\ UNCHANGED req
       ELSE /\ turn' = [turn EXCEPT !.stage = "tool_failed",
                                    !.tool_outcome = "raised",
                                    !.printed = @ \o <<Line("[ERROR] Tool call failed:", "none", NoReply)>>]
            /\ pc' = "await"
            /\ req' = NoReq
    /\ r' = Unbound
    /\ ClearRequest
    /\ UNCHANGED <<server_urls, idx, phase, tool_cache, discovered, tools, system_prompt,
                   read_input, exit, visit, seen, stored, expected, stats>>

\* Mutation: after the failure is printed the loop body goes on to the
\* follow-up model call instead of "continue".
ToolCallFailed_Summarizes ==
    /\ pc = "posted"
    /\ ret.raised
    /\ turn' = [turn EXCEPT !.stage = "tool_failed",
                            !.tool_outcome = "raised",
                            !.llm_calls = @ + 1,
                            !.prompts = @ \cup {system_prompt},
                            !.printed = @ \o <<Line("[ERROR] Tool call failed:", "none", NoReply),
                                               Line("Assistant:", "final_reply", NoReply)>>]
    /\ pc' = "await"
    /\ req' = NoReq
    /\ r' = Unbound
    /\ ClearRequest
    /\ UNCHANGED <<server_urls, idx, phase, tool_cache, discovered, tools, system_prompt,
                   read_input, exit, visit, seen, stored, expected, stats>>

\* call_tool_on_server raised: the failure is printed, then "continue".
ToolCallFailed ==
    /\ pc = "posted"
    /\ ret.raised
    /\ turn' = [turn EXCEPT !.stage = "tool_failed",
                            !.tool_outcome = "raised",
                            !.printed = @ \o <<Line("[ERROR] Tool call failed:", "none", NoReply)>>]
    /\ pc' = "await"
    /\ req' = NoReq
    /\ r' = Unbound
    /\ ClearRequest
    /\ UNCHANGED <<server_urls, idx, phase, tool_cache, discovered, tools, system_prompt,
                   read_input, exit, visit, seen, stored, expected, stats>>

\* Mutation: the follow-up call_llm is outside any try, so its exception
\* leaves the loop.
ToolCallReturned_NoFallback ==
    /\ pc = "posted"
    /\ ~ret.raised
    /\ \E ok \in BOOLEAN :
          /\ turn' = [turn EXCEPT
                        !.stage = IF ok THEN "answered" ELSE "crashed",
                        !.tool_outcome = "returned",
                        !.followup = IF ok THEN "replied" ELSE "raised",
                        !.llm_calls = @ + 1,
                        !.prompts = @ \cup {system_prompt},
                        !.printed = @ \o <<Line("Tool result:", "json", NoReply)>>
                                      \o (IF ok
                                          THEN <<Line("Assistant:", "final_reply", NoReply)>>
                                          ELSE << >>)]
          /\ pc' = IF ok THEN "await" ELSE "ended"
          /\ exit' = IF ok THEN exit ELSE "exception"
    /\ req' = NoReq
    /\ r' = Unbound
    /\ ClearRequest
    /\ UNCHANGED <<server_urls, idx, phase, tool_cache, discovered, tools, system_prompt,
                   read_input, visit, seen, stored, expected, stats>>

\* call_tool_on_server returned: the result is printed and the model is asked
\* for a reply to it, which is printed, or else the raw result is.
ToolCallReturned ==
    /\ pc = "posted"
    /\ ~ret.raised
    /\ \E ok \in BOOLEAN :
          turn' = [turn EXCEPT
                     !.stage = IF ok THEN "answered" ELSE "raw_result",
                     !.tool_outcome = "returned",
                     !.followup = IF ok THEN "replied" ELSE "raised",
                     !.llm_calls = @ + 1,
                     !.prompts = @ \cup {FollowupPrompt(system_prompt)},
                     !.printed = @ \o <<Line("Tool result:", "json", NoReply)>>
                                   \o (IF ok
                                       THEN <<Line("Assistant:", "final_reply", NoReply)>>
                                       ELSE <<Line("[WARN] followup LLM call failed:", "none", NoReply),
                                              Line("Assistant (raw tool result):", "json", NoReply)>>)]
    /\ pc' = "await"
    /\ req' = NoReq
    /\ r' = Unbound
    /\ ClearRequest
    /\ UNCHANGED <<server_urls, idx, phase, tool_cache, discovered, tools, system_prompt,
                   read_input, exit, visit, seen, stored, expected, stats>>

\* ------------------------------------------------------------------------
\* Specifications
\* ------------------------------------------------------------------------
Init ==
    /\ pc = "start"
    /\ server_urls = << >>
    /\ idx = 0
    /\ phase = "init"
    /\ attempt = 0
    /\ sleeps = 0
    /\ tried = 0
    /\ r = Unbound
    /\ ret = NoRet
    /\ tool_cache = [s \in Servers |-> NoEntry]
    /\ discovered = << >>
    /\ tools = << >>
    /\ system_prompt = << >>
    /\ req = NoReq
    /\ turn = NoTurn
    /\ read_input = FALSE
    /\ exit = None
    /\ visit = NoVisit
    /\ seen = [s \in Servers |-> NoEntry]
    /\ stored = [s \in Servers |-> NoEntry]
    /\ expected = << >>
    /\ stats = NoStats

DiscoveryNext ==
    \/ CallDiscover
    \/ NextServer
    \/ GetAttempt
    \/ InitFailed
    \/ InitOk
    \/ ListFailed
    \/ ListOk
    \/ ReturnToCaller

DiscoverySpec == Init /\ [][DiscoveryNext]_vars

Next ==
    \/ StartSession
    \/ NextServer
    \/ GetAttempt
    \/ InitFailed
    \/ InitOk
    \/ ListFailed
    \/ ListOk
    \/ ReturnToAgentLoop
    \/ ReadInput
    \/ ModelReplies
    \/ PostAttempt
    \/ ToolCallFailed
    \/ ToolCallReturned

Spec == Init /\ [][Next]_vars

\* Every request is sent with timeout=REQUEST_TIMEOUT and every sleep is
\* RETRY_DELAY long, so a pass through either retry loop always completes.
FairSpec == Spec /\ WF_vars(GetAttempt) /\ WF_vars(PostAttempt)

\* ------------------------------------------------------------------------
\* Properties of discover_tools (under DiscoverySpec)
\* ------------------------------------------------------------------------
\* The tools the current iteration appended to discovered, without their tag.
Contributed == UntagAll(SubSeq(discovered, visit.before + 1, Len(discovered)))

\* The current iteration got both answers, and the version of /list_tools is
\* the one this server reported at its previous good visit.
SameVersionAgain ==
    /\ pc = "iter"
    /\ visit.list = "ok"
    /\ visit.prev.has
    /\ visit.prev.version = visit.version

\* C1: a server that answers with the tool_schema_version it reported at its
\* previous good visit (earlier in this call or in an earlier call, so in
\* particular in two consecutive calls that see one version) contributes the
\* tools it contributed then, whatever tool list the new response carries.
C1_CachedToolsReused == SameVersionAgain => Contributed = visit.prev.tools

\* C1 witness: the first server of a later call reports its old version with
\* a different tool list, and the pass has appended its tools.
C1_Witness ==
    /\ SameVersionAgain
    /\ stats.visits = 1
    /\ visit.fresh # visit.prev.tools
    /\ visit.fresh # << >>
    /\ visit.prev.tools # << >>

\* The current iteration got both answers, and the cache held no entry for
\* the server or one of another version.
VersionChanged ==
    /\ pc = "iter"
    /\ visit.list = "ok"
    /\ ~(visit.cached.has /\ visit.cached.version = visit.version)

\* C2: after a response with a version that is not the cached one (or with
\* no cache entry) the entry is exactly the version and the tools of that
\* response, and at every moment every cache entry is the pair of one
\* response: the last one of that server that differed in version.
C2_EntryReplacedWhole ==
    /\ VersionChanged => tool_cache[visit.url] = Entry(visit.version, visit.fresh)
    /\ \A s \in Servers : tool_cache[s] = stored[s]

\* C2 witness: a cached server reports another version and other tools.
C2_Witness ==
    /\ VersionChanged
    /\ visit.cached.has
    /\ visit.cached.tools # << >>
    /\ visit.fresh # << >>
    /\ visit.cached.tools # visit.fresh

\* C3: discover_tools never ends by an exception, and when it returns every
\* server of the list was visited, each visit either failed one of its two
\* requests or answered both, and the list returned is exactly the tagged
\* tools of the visits that answered both, in order: nothing when all failed.
C3_ReachableSubsetReturned ==
    /\ exit # "exception"
    /\ pc = "returned" =>
          /\ stats.visits = Len(server_urls)
          /\ stats.failed + stats.answered = Len(server_urls)
          /\ discovered = expected
          /\ stats.answered = 0 => discovered = << >>

\* C3 witness: a pass over two servers of which one failed returns tools.
C3_Witness ==
    /\ pc = "returned"
    /\ Len(server_urls) = 2
    /\ stats.failed = 1
    /\ discovered # << >>

\* C9: a server whose /initialize failed on all MAX_RETRIES + 1 attempts has
\* one warning, is not asked for its tools and adds nothing to the result;
\* the pass goes on, so that it returns after a visit to every server, with
\* one warning per failed server.
C9_OneWarningPerFailedServer ==
    /\ (pc = "iter" /\ visit.init = "failed") =>
          /\ visit.attempts = MAX_RETRIES + 1
          /\ visit.warnings = 1
          /\ visit.list = "none"
          /\ Len(discovered) = visit.before
    /\ pc = "returned" =>
          /\ stats.visits = Len(server_urls)
          /\ stats.warnings = stats.failed

\* C9 witness: the first of two servers has failed /initialize three times.
C9_Witness ==
    /\ pc = "iter"
    /\ visit.init = "failed"
    /\ visit.attempts = MAX_RETRIES + 1
    /\ idx < Len(server_urls)

\* ------------------------------------------------------------------------
\* Properties of http_get and http_post
\* ------------------------------------------------------------------------
\* The counters of an http_get call, in progress or just finished.
GetBounded ==
    /\ pc = "get" =>
          /\ attempt <= MAX_RETRIES
          /\ tried = attempt
          /\ sleeps = attempt
    /\ pc = "got" =>
          /\ tried = attempt + 1
          /\ tried <= MAX_RETRIES + 1
          /\ sleeps = tried - 1
          /\ ret.err # "ReturnedNone"
          /\ ~ret.raised => ret.body.at = attempt
          /\ ret.raised =>
                /\ tried = MAX_RETRIES + 1
                /\ ret.errAt = MAX_RETRIES
                /\ ret.err \in GetFailures

\* C8: an http_get call in progress comes to an end; it sends at most
\* MAX_RETRIES + 1 requests, one after a failure of the one before, sleeps
\* once between two requests and not after the last, returns the body of the
\* first request that succeeds, and raises the failure of the last request
\* when all MAX_RETRIES + 1 failed.
C8_HttpGetTerminates == [](GetBounded) /\ ((pc = "get") ~> (pc = "got"))

\* C8 witness: http_get has raised after three requests and two sleeps.
C8_Witness ==
    /\ pc = "got"
    /\ ret.raised
    /\ tried = MAX_RETRIES + 1
    /\ sleeps = MAX_RETRIES

\* C7 (as claimed): a value http_post returns after its last attempt is the
\* body of the response to that last attempt.
C7_PostReturnsFinalBody ==
    (pc = "posted" /\ tried = MAX_RETRIES + 1 /\ ~ret.raised) => ret.body.at = MAX_RETRIES

\* ------------------------------------------------------------------------
\* Properties of agent_loop (under Spec)
\* ------------------------------------------------------------------------
\* Standard JSON Schema meaning of the schemas of the model: an instance
\* conforms when it has the type, the required keys and the key types.
Conforms(schema, instance) ==
    /\ schema.type = "object" => instance.isobj
    /\ instance.isobj =>
          /\ \A k \in schema.required : \E f \in instance.fields : f[1] = k
          /\ \A f \in instance.fields : f[1] \in schema.numeric => f[2] = "number"

\* The decision of this turn names a tool of the discovered list.
TurnFound ==
    /\ turn.reply.syntax = "object"
    /\ turn.reply.action = "use_tool"
    /\ ~Falsy(turn.reply.tool)
    /\ ~Falsy(turn.reply.server_url)
    /\ Matches(tools, turn.reply.tool, turn.reply.server_url) # {}

TurnTool == tools[First(Matches(tools, turn.reply.tool, turn.reply.server_url))]

TurnSchema == IF TurnTool.has_schema THEN TurnTool.args_schema ELSE DefaultSchema

TurnArgs == IF turn.reply.args.present THEN turn.reply.args ELSE ArgsEmpty

\* C4: a tool call is in progress or done in this turn only if the validator
\* returned None for the tool looked up and the args, which then conform to
\* its schema; and args that violate the schema get a non-empty message from
\* the validator, which is printed, with no tool call, back at the input.
C4_ValidatedBeforeCall ==
    /\ (pc \in {"post", "posted"} \/ turn.tool_calls > 0) =>
          /\ turn.validated = "passed"
          /\ TurnFound
          /\ TurnSchema.wellformed
          /\ Conforms(TurnSchema, TurnArgs)
    /\ (TurnFound /\ TurnSchema.wellformed /\ ~Conforms(TurnSchema, TurnArgs)) =>
          /\ turn.validated = "rejected"
          /\ ~turn.message.isNone
          /\ turn.message.text # << >>
          /\ turn.printed = <<Line("[ERROR] Argument validation failed:", "message", NoReply)>>
          /\ turn.tool_calls = 0
          /\ pc = "await"

\* C4 witness: the model asked for add without its required argument.
C4_Witness ==
    /\ TurnFound
    /\ turn.reply.tool = "add"
    /\ turn.reply.args = ArgsAbsent
    /\ turn.validated = "rejected"

\* C5 (as claimed): a session that has entered its loop ends only on quit.
C5_LoopEndsOnlyOnQuit == (pc = "ended" /\ read_input) => exit = "quit"

\* C6 (as claimed): a reply that is not valid JSON is printed as it is, with
\* no tool call and no second model call, and the loop awaits input again.
C6_InvalidJsonShownRaw ==
    turn.reply.syntax \in {"prose", "nan"} =>
        /\ pc = "await"
        /\ turn.printed = <<Line("Assistant:", "raw", turn.reply)>>
        /\ turn.tool_calls = 0
        /\ turn.llm_calls = 1

\* C10: a session that ended for want of tools discovered none, read no
\* input and made no model call and no tool call; a session that is in its
\* loop, or left it, discovered at least one tool.
C10_NoToolsEndsSession ==
    /\ (pc = "ended" /\ exit = "no_tools") =>
          /\ discovered = << >>
          /\ ~read_input
          /\ turn = NoTurn
    /\ (pc \in {"await", "llm", "post", "posted"} \/ exit \in {"quit", "exception"}) =>
          discovered # << >>
    /\ (pc \in {"await", "llm", "post", "posted", "ended"}) => tools = discovered

\* C10 witness: two servers answered, neither has a tool, the session ended.
C10_Witness ==
    /\ pc = "ended"
    /\ exit = "no_tools"
    /\ stats.answered = 2

\* ------------------------------------------------------------------------
\* Properties of the tool call of a turn (under Spec)
\* ------------------------------------------------------------------------
\* The POST /call_tool of this turn went through all its attempts and none of
\* them got a 2xx response with a parseable body.
PostFailedEveryAttempt == turn.post_failures = MAX_RETRIES + 1

\* C11 (as claimed): in a turn whose tool-call POST failed on every attempt,
\* by a network error or a non-2xx status, the failure is reported, the turn
\* ends and no second model call is made.
C11_FailedPostEndsTurn ==
    (PostFailedEveryAttempt /\ pc = "await") =>
        /\ turn.stage = "tool_failed"
        /\ turn.llm_calls = 1

\* C11 (amended): in a turn whose tool call raised, which is when every
\* attempt of the POST failed and no response with a parseable body was left
\* for http_post to return, the failure is printed, no second model call is
\* made and the loop is back at its input.
C11_RaisedCallEndsTurn ==
    /\ (pc = "posted" /\ ret.raised) => PostFailedEveryAttempt
    /\ turn.tool_outcome = "raised" =>
          /\ PostFailedEveryAttempt
          /\ pc = "await"
          /\ turn.printed = <<Line("[ERROR] Tool call failed:", "none", NoReply)>>
          /\ turn.llm_calls = 1
          /\ turn.tool_calls = 1

\* C11 witness: a tool call raised after all its attempts.
C11_Witness ==
    /\ turn.tool_outcome = "raised"
    /\ turn.post_failures = MAX_RETRIES + 1
    /\ pc = "await"

\* C12: when the tool call returned a result and the follow-up model call
\* raised, the result is printed, then a warning, then the raw result in
\* place of the model's reply: no error line, and the loop is back at its
\* input, not ended.
C12_RawResultOnFollowupFailure ==
    turn.followup = "raised" =>
        /\ turn.tool_outcome = "returned"
        /\ pc = "await"
        /\ exit = None
        /\ turn.llm_calls = 2
        /\ turn.printed = <<Line("Tool result:", "json", NoReply),
                            Line("[WARN] followup LLM call failed:", "none", NoReply),
                            Line("Assistant (raw tool result):", "json", NoReply)>>

\* C12 witness: the follow-up call of a turn raised after its tool call
\* returned at the first attempt.
C12_Witness ==
    /\ turn.followup = "raised"
    /\ turn.tool_outcome = "returned"
    /\ turn.post_failures = 0

\* C13: a turn calls call_tool_on_server at most once and the model at most
\* twice, and it calls the model a second time only after its tool call
\* returned a result.
C13_CallsPerTurn ==
    /\ turn.tool_calls <= 1
    /\ turn.llm_calls <= 2
    /\ turn.llm_calls = 2 =>
          /\ turn.tool_calls = 1
          /\ turn.tool_outcome = "returned"
    /\ turn.tool_outcome # "none" => turn.tool_calls = 1
    /\ pc \in {"post", "posted"} => (turn.tool_calls = 1 /\ turn.llm_calls = 1)

\* C13 witness: a turn with one tool call and two model calls, back at the input.
C13_Witness ==
    /\ pc = "await"
    /\ turn.tool_calls = 1
    /\ turn.llm_calls = 2
    /\ turn.followup = "replied"

\* The decision of this turn is a use_tool object with a tool and a server.
TurnNamesPair ==
    /\ turn.reply.syntax = "object"
    /\ turn.reply.action = "use_tool"
    /\ ~Falsy(turn.reply.tool)
    /\ ~Falsy(turn.reply.server_url)

\* Some descriptor of the discovered list has this name and this server.
Listed(name, url) ==
    \E i \in 1..Len(tools) : tools[i].name = name /\ tools[i].server_url = url

\* C14: a /call_tool request is in progress, or a tool call was made in this
\* turn, only for the tool and server the decision names, which are the name
\* and the owning server of one descriptor of the list discovered at the
\* start of the session; and a decision that names a pair not in that list
\* gets "Tool not found", with no request sent, back at the input.
C14_CallsOnlyListedPairs ==
    /\ pc \in {"post", "posted"} =>
          /\ TurnNamesPair
          /\ req = [server_url |-> turn.reply.server_url, tool |-> turn.reply.tool]
          /\ Listed(req.tool, req.server_url)
          /\ tools = discovered
    /\ turn.tool_calls > 0 =>
          /\ TurnNamesPair
          /\ Listed(turn.reply.tool, turn.reply.server_url)
    /\ (TurnNamesPair /\ ~Listed(turn.reply.tool, turn.reply.server_url)) =>
          /\ pc = "await"
          /\ turn.stage = "not_found"
          /\ turn.printed = <<Line("[ERROR] Tool not found on server.", "none", NoReply)>>
          /\ turn.tool_calls = 0
          /\ turn.post_failures = 0
          /\ turn.tool_outcome = "none"
          /\ req = NoReq

\* C14 witness: the decision names a tool of the list, but on a server that
\* does not own it.
C14_Witness ==
    /\ TurnNamesPair
    /\ turn.stage = "not_found"
    /\ \E i \in 1..Len(tools) :
          tools[i].name = turn.reply.tool /\ tools[i].server_url # turn.reply.server_url

\* ------------------------------------------------------------------------
\* More properties of discover_tools (under DiscoverySpec)
\* ------------------------------------------------------------------------
\* C15 (as claimed): no two descriptors of a list discover_tools returns have
\* the same name and the same owning server.
C15_NoDuplicatePairs ==
    pc = "returned" =>
        \A i, j \in 1..Len(discovered) :
            (discovered[i].name = discovered[j].name
               /\ discovered[i].server_url = discovered[j].server_url) => i = j

\* ------------------------------------------------------------------------
\* More properties of agent_loop (under Spec)
\* ------------------------------------------------------------------------
\* The reply of this turn is valid JSON whose action, if it has one, is
\* neither "none" nor "use_tool".
ParsesWithOtherAction ==
    \/ turn.reply.syntax \in {"scalar", "array"}
    \/ turn.reply.syntax = "object" /\ turn.reply.action \notin {"none", "use_tool"}

\* C16 (as claimed): a reply that parses as JSON with an action that is
\* neither none nor use_tool, or with no action, is handled as a reply that
\* is no JSON: its raw text is printed as the assistant's answer, no tool
\* call is made and the loop awaits input again.
C16_OtherActionShownRaw ==
    ParsesWithOtherAction =>
        /\ pc = "await"
        /\ turn.printed = <<Line("Assistant:", "raw", turn.reply)>>
        /\ turn.tool_calls = 0

\* The decision of this turn is a use_tool object that lacks its tool or its
\* server_url, or has an empty one.
TurnLacksPair ==
    /\ turn.reply.syntax = "object"
    /\ turn.reply.action = "use_tool"
    /\ turn.reply.tool \in {None, ""} \/ turn.reply.server_url \in {None, ""}

\* C17: a use_tool decision without a tool or without a server_url is
\* reported as incomplete, and the turn ends there: no lookup, no
\* validation, no tool call; and "Tool not found" is only ever printed for a
\* decision that has both.
C17_IncompleteBeforeLookup ==
    /\ TurnLacksPair =>
          /\ pc = "await"
          /\ turn.stage = "incomplete"
          /\ turn.printed = <<Line("[ERROR] Incomplete tool call info:", "repr", turn.reply)>>
          /\ ~turn.looked_up
          /\ turn.validated = "no"
          /\ turn.tool_calls = 0
          /\ turn.tool_outcome = "none"
          /\ req = NoReq
    /\ turn.stage = "not_found" => ~TurnLacksPair

\* C17 witness: the decision has a server but an empty tool name.
C17_Witness ==
    /\ TurnLacksPair
    /\ turn.reply.tool = ""
    /\ turn.reply.server_url \in Servers
    /\ turn.stage = "incomplete"

\* The program is in the while loop of agent_loop.
InLoop == pc \in {"await", "llm", "post", "posted"}

\* The program is in discover_tools.
InDiscovery == pc \in {"iter", "get", "got"}

\* What holds of a session from the moment its loop is entered: the tools
\* are the discovered ones, the system prompt is the one built from them, and
\* the model calls of the turn were all sent with it.
SessionFixed ==
    /\ tools = discovered
    /\ system_prompt = build_system_prompt_from_tools(discovered)
    /\ turn.prompts \subseteq {system_prompt}
    /\ turn.llm_calls > 0 => turn.prompts = {system_prompt}

\* C18: discovery is entered once, from the start of the session and before
\* any input is read, and never again; no step of the loop changes the
\* discovered list, the tools, the system prompt or the tool cache; and every
\* model call is sent with that system prompt.
C18_DiscoveredOnceThenFixed ==
    /\ [](read_input => ~InDiscovery /\ pc # "start")
    /\ []((InLoop \/ read_input) => SessionFixed)
    /\ [][(InDiscovery' /\ ~InDiscovery) => (pc = "start" /\ ~read_input)]_vars
    /\ [][pc # "start" => pc' # "start"]_vars
    /\ [][InLoop => /\ discovered' = discovered
                    /\ tools' = tools
                    /\ system_prompt' = system_prompt
                    /\ tool_cache' = tool_cache]_vars

\* C18 witness: a turn with two model calls, in a session over two servers
\* of which one is cached.
C18_Witness ==
    /\ pc = "await"
    /\ turn.llm_calls = 2
    /\ Len(server_urls) = 2
    /\ \E s \in Servers : tool_cache[s].has

\* ------------------------------------------------------------------------
\* The tool cache (under DiscoverySpec)
\* ------------------------------------------------------------------------
\* The step in progress is the one where server s has answered /initialize
\* and /list_tools, the latter with a version that is not the cached one.
AnsweredNewVersion(s) ==
    /\ pc = "got"
    /\ phase = "list"
    /\ visit.init = "ok"
    /\ ~ret.raised
    /\ ret.body.isdict
    /\ server_urls[idx] = s
    /\ ~(tool_cache[s].has /\ tool_cache[s].version = ret.body.version)

\* C19: the cache entry of a server changes only in the step where that
\* server has answered both requests with a version other than the cached
\* one (or with nothing cached), and then becomes the version and tools of
\* that answer; in every other step, and for every other server, it stays
\* as it is; and an entry that exists is never removed.
C19_CacheChangesOnlyOnNewVersion ==
    /\ [][\A s \in Servers :
            tool_cache'[s] # tool_cache[s] =>
               /\ AnsweredNewVersion(s)
               /\ tool_cache'[s] = Entry(ret.body.version, ret.body.tools)]_vars
    /\ [][\A s \in Servers : tool_cache[s].has => tool_cache'[s].has]_vars

\* C19 witness: a cached server answered again with the cached version but
\* with other tools, and its entry is what it was.
C19_Witness ==
    /\ pc = "iter"
    /\ visit.list = "ok"
    /\ visit.cached.has
    /\ visit.cached.version = visit.version
    /\ visit.fresh # visit.cached.tools
    /\ tool_cache[visit.url] = visit.cached

====
